---- MODULE Spec2Model ----
(***************************************************************************)
(* Model of the executable content of the ProAlgoTrader documentation      *)
(* repository.  The repository holds documentation pages and a site        *)
(* configuration; the strategy runtime (proalgotrader_core) that would     *)
(* construct strategies, schedule initialize()/next(), validate orders,    *)
(* square positions off, register indicators and instantiate position      *)
(* managers is an external library and is not part of this repository.     *)
(*                                                                         *)
(* What the repository does contain is user-side example code, worked     *)
(* figures and the site configuration.  Each is modelled as a component    *)
(* with its own variables and its own specification; a component's         *)
(* actions leave the variables of the other components unchanged:          *)
(*   Spec         the single position manager example of the position      *)
(*                management page                                          *)
(*   SpecPMR      the single position manager example of the core API page *)
(*   SpecCooldown OptimizedStrategy and its signal cooldown                *)
(*   SpecSignal   the golden crossover / death cross signal rule           *)
(*   SpecLegs     the add_option() legs of the options examples            *)
(*   SpecPayoff   the worked expiry scenarios of the iron butterfly and    *)
(*                iron condor                                              *)
(*   SpecEntry    should_trade() and the order items of the iron butterfly *)
(*                and iron condor                                          *)
(*   SpecSite     the navbar, footer and sidebar of the site               *)
(* Every value an example reads from the runtime (the wall clock,          *)
(* algorithm.current_datetime, unrealized_pnl, len(positions)) is an input *)
(* drawn from a bounded set, and the order in which the runtime calls      *)
(* initialize() and next() is left open, because no code of this           *)
(* repository fixes it.                                                    *)
(*                                                                         *)
(* Time is counted in whole minutes.                                       *)
(***************************************************************************)
EXTENDS Integers, Sequences, FiniteSets

\* ---- bounds of the model ------------------------------------------------
MaxNow == 1            \* datetime.now() read by initialize(): 0..MaxNow
MaxTime == 32          \* latest algorithm.current_datetime read by next()
MaxOpen == 6           \* largest len(algorithm.positions) read by next()

\* ---- constants of the example -------------------------------------------
ExitDelay == 30        \* timedelta(minutes=30)
ProfitThreshold == 2000
LossThreshold == 1000
MaxPositionsDefault == 5

NoTime == -1           \* self.exit_time = None

NowInputs == 0..MaxNow
TimeInputs == {0, ExitDelay - 1} \cup (ExitDelay..MaxTime)
ProfitInputs == {0, ProfitThreshold - 1, ProfitThreshold}
LossInputs == {0, LossThreshold - 1, LossThreshold}
OpenInputs == {0} \cup ((MaxPositionsDefault - 1)..MaxOpen)

VARIABLES
    exit_time,         \* PositionManager.exit_time (NoTime for None)
    max_positions,     \* PositionManager.max_positions
    current_datetime,  \* algorithm.current_datetime seen by the last next()
    profit,            \* algorithm.unrealized_pnl.profit seen by the last next()
    loss,              \* algorithm.unrealized_pnl.loss seen by the last next()
    n_positions,       \* len(algorithm.positions) seen by the last next()
    calls,             \* what the last next() did, in order
    last_op            \* the method of the example that ran last

pmVars == <<exit_time, max_positions, current_datetime, profit, loss,
            n_positions, calls, last_op>>

\* ---- the single position manager example of the core API page -----------
RExitDelay == 5        \* timedelta(minutes=5)
RProfitThreshold == 1000
RLossThreshold == 500
RMaxTime == 7          \* latest algorithm.current_datetime read by next()

RTimeInputs == {0, RExitDelay - 1} \cup (RExitDelay..RMaxTime)
RProfitInputs == {0, RProfitThreshold - 1, RProfitThreshold}
RLossInputs == {0, RLossThreshold - 1, RLossThreshold}

VARIABLES
    r_exit_time,         \* PositionManager.exit_time (NoTime for None)
    r_current_datetime,  \* algorithm.current_datetime seen by the last next()
    r_profit,            \* algorithm.unrealized_pnl.profit seen by the last next()
    r_loss,              \* algorithm.unrealized_pnl.loss seen by the last next()
    r_calls,             \* what the last next() did, in order
    r_last_op            \* the method of the example that ran last

pmrVars == <<r_exit_time, r_current_datetime, r_profit, r_loss, r_calls,
             r_last_op>>

\* ---- OptimizedStrategy -------------------------------------------------
SignalCooldown == 5    \* timedelta(minutes=5)
MaxClock == 11         \* latest algorithm.current_datetime read by next()
MaxHeld == 1           \* largest len(self.positions) read by should_trade()

ClockInputs == 0..MaxClock
HeldInputs == 0..MaxHeld

VARIABLES
    last_signal_time,    \* OptimizedStrategy.last_signal_time (NoTime for None)
    cd_now,              \* current_datetime read by the last next()
    cd_held,             \* len(self.positions) at the last next()
    cd_before,           \* last_signal_time when the last next() started
    cd_placed,           \* TRUE iff the last next() called place_trades()
    trade_times,         \* current_datetime of every place_trades() call so far
    cd_last_op           \* the method of the example that ran last

cdVars == <<last_signal_time, cd_now, cd_held, cd_before, cd_placed,
            trade_times, cd_last_op>>

\* ---- golden crossover / death cross signal detection ---------------------
MaxSma == 2            \* SMA readings on a small grid: 0..MaxSma

\* The readings printed in the example output, in hundredths of a rupee.
GoldenPrev == <<241825, 242510>>   \* Previous SMA 50, Previous SMA 200
GoldenCur == <<245050, 242075>>    \* Current SMA 50, Current SMA 200
DeathPrev == <<387015, 386025>>
DeathCur == <<385020, 386540>>

\* A reading is the pair <<SMA 50, SMA 200>>.
ReadingInputs ==
    ((0..MaxSma) \X (0..MaxSma))
        \cup {GoldenPrev, GoldenCur, DeathPrev, DeathCur}

NoReading == <<-1, -1>>

VARIABLES
    prev_reading,        \* the reading before the current one
    cur_reading,         \* the current reading
    buy_signal,          \* TRUE iff the BUY signal was generated for the pair
    sell_signal          \* TRUE iff the SELL signal was generated for the pair

sigVars == <<prev_reading, cur_reading, buy_signal, sell_signal>>

\* ---- site navigation ----------------------------------------------------
VARIABLES
    current_page,        \* the document shown (a document ID, NotFound or External)
    prev_page,           \* the document shown before it
    via                  \* how current_page was reached

siteVars == <<current_page, prev_page, via>>

\* ---- option legs of the examples ----------------------------------------
VARIABLES
    added,               \* the legs whose add_option() call has run
    last_added,          \* the leg added last (0 before the first)
    last_moneyness       \* its moneyness under the strike_price_input rule

legVars == <<added, last_added, last_moneyness>>

\* ---- payoff of the four-leg structures at expiry -------------------------
MaxPriceStep == 18     \* expiry prices LowestPrice + 50 * (0..MaxPriceStep)
MaxLots == 3           \* lots per leg: 1..MaxLots

LowestPrice == 18600
PriceStep == 50

PriceInputs == {LowestPrice + PriceStep * k : k \in 0..MaxPriceStep}
LotInputs == 1..MaxLots

VARIABLES
    pay_structure,       \* the structure that expired ("none" before the first)
    pay_price,           \* the underlying price at expiry
    pay_lots,            \* lots per leg
    pay_net_loss,        \* loss on the sold legs minus gain on the bought legs
    pay_pnl              \* result of the trade at expiry

payVars == <<pay_structure, pay_price, pay_lots, pay_net_loss, pay_pnl>>

\* ---- entry of the four-leg strategies ------------------------------------
MaxStructures == 2     \* create_multiple_orders() calls of one run

LossLimit == 500

EntryLossInputs == {0, LossLimit - 1, LossLimit}

VARIABLES
    ent_strategy,        \* the example that runs
    ent_orders,          \* structure -> leg -> state of its order / position
    ent_calls,           \* create_multiple_orders() calls so far
    ent_items,           \* order_items of the last call
    ent_seen,            \* what the last should_trade() saw (none: {})
    ent_should           \* what the last should_trade() returned

entVars == <<ent_strategy, ent_orders, ent_calls, ent_items, ent_seen,
             ent_should>>

vars == <<pmVars, pmrVars, cdVars, sigVars, siteVars, legVars, payVars,
          entVars>>

otherThanPM == <<pmrVars, cdVars, sigVars, siteVars, legVars, payVars,
    entVars>>
otherThanPMR == <<pmVars, cdVars, sigVars, siteVars, legVars, payVars,
    entVars>>
otherThanCooldown == <<pmVars, pmrVars, sigVars, siteVars, legVars, payVars,
    entVars>>
otherThanSignal == <<pmVars, pmrVars, cdVars, siteVars, legVars, payVars,
    entVars>>
otherThanSite == <<pmVars, pmrVars, cdVars, sigVars, legVars, payVars,
    entVars>>
otherThanLegs == <<pmVars, pmrVars, cdVars, sigVars, siteVars, payVars,
    entVars>>
otherThanPayoff == <<pmVars, pmrVars, cdVars, sigVars, siteVars, legVars,
    entVars>>
otherThanEntry == <<pmVars, pmrVars, cdVars, sigVars, siteVars, legVars,
    payVars>>

\* PositionManager.__init__ of the position management page.
InitPM ==
    /\ exit_time = NoTime
    /\ max_positions = MaxPositionsDefault
    /\ current_datetime = 0
    /\ profit = 0
    /\ loss = 0
    /\ n_positions = 0
    /\ calls = <<>>
    /\ last_op = "__init__"

\* Python truthiness of self.exit_time: None is false, a datetime is true.
ExitTimeSet(t) == t # NoTime

\* The condition of the time-based exit.
TimeExitDue(t, now) == ExitTimeSet(t) /\ t <= now

\* The statements next() executes for the given readings: each
\* exit_all_positions() call and the position-limit message, in order.
NextCalls(t, now, p, l, n, maxp) ==
    IF TimeExitDue(t, now)
    THEN <<"exit_all_positions:time">>
    ELSE (IF p >= ProfitThreshold
          THEN <<"exit_all_positions:profit">>
          ELSE IF l >= LossThreshold
               THEN <<"exit_all_positions:loss">>
               ELSE <<>>)
         \o (IF n >= maxp THEN <<"max_positions_reached">> ELSE <<>>)

\* PositionManager.initialize(): exit time 30 minutes after the wall clock.
PM_initialize(now) ==
    /\ exit_time' = now + ExitDelay
    /\ last_op' = "initialize"
    /\ UNCHANGED <<max_positions, current_datetime, profit, loss,
                   n_positions, calls>>
    /\ UNCHANGED otherThanPM

\* PositionManager.next(): one algorithm iteration.
PM_next(now, p, l, n) ==
    /\ current_datetime' = now
    /\ profit' = p
    /\ loss' = l
    /\ n_positions' = n
    /\ calls' = NextCalls(exit_time, now, p, l, n, max_positions)
    /\ last_op' = "next"
    /\ UNCHANGED <<exit_time, max_positions>>
    /\ UNCHANGED otherThanPM

NextPM ==
    \/ \E now \in NowInputs : PM_initialize(now)
    \/ \E now \in TimeInputs, p \in ProfitInputs, l \in LossInputs,
          n \in OpenInputs : PM_next(now, p, l, n)

TypeOK ==
    /\ exit_time \in {NoTime} \cup (ExitDelay..(MaxNow + ExitDelay))
    /\ max_positions = MaxPositionsDefault
    /\ current_datetime \in TimeInputs
    /\ profit \in ProfitInputs
    /\ loss \in LossInputs
    /\ n_positions \in OpenInputs
    /\ calls \in Seq({"exit_all_positions:time", "exit_all_positions:profit",
                      "exit_all_positions:loss", "max_positions_reached"})
    /\ last_op \in {"__init__", "initialize", "next"}

\* ======================================================================
\* The single position manager example of the core API page.
\* ======================================================================

\* PositionManager.__init__
InitPMR ==
    /\ r_exit_time = NoTime
    /\ r_current_datetime = 0
    /\ r_profit = 0
    /\ r_loss = 0
    /\ r_calls = <<>>
    /\ r_last_op = "__init__"

\* The statements next() executes for the given readings.  The time-based
\* exit does not return, so the risk checks run after it.
RNextCalls(t, now, p, l) ==
    (IF TimeExitDue(t, now) THEN <<"exit_all_positions:time">> ELSE <<>>)
    \o (IF p >= RProfitThreshold
        THEN <<"exit_all_positions:profit">>
        ELSE IF l >= RLossThreshold
             THEN <<"exit_all_positions:loss">>
             ELSE <<>>)

\* PositionManager.initialize(): exit time 5 minutes after the wall clock.
PMR_initialize(now) ==
    /\ r_exit_time' = now + RExitDelay
    /\ r_last_op' = "initialize"
    /\ UNCHANGED <<r_current_datetime, r_profit, r_loss, r_calls>>
    /\ UNCHANGED otherThanPMR

\* PositionManager.next(): one algorithm iteration.
PMR_next(now, p, l) ==
    /\ r_current_datetime' = now
    /\ r_profit' = p
    /\ r_loss' = l
    /\ r_calls' = RNextCalls(r_exit_time, now, p, l)
    /\ r_last_op' = "next"
    /\ UNCHANGED r_exit_time
    /\ UNCHANGED otherThanPMR

NextPMR ==
    \/ \E now \in NowInputs : PMR_initialize(now)
    \/ \E now \in RTimeInputs, p \in RProfitInputs, l \in RLossInputs :
          PMR_next(now, p, l)

\* ======================================================================
\* OptimizedStrategy: signal cooldown.
\* ======================================================================

\* OptimizedStrategy.__init__
InitCooldown ==
    /\ last_signal_time = NoTime
    /\ cd_now = 0
    /\ cd_held = 0
    /\ cd_before = NoTime
    /\ cd_placed = FALSE
    /\ trade_times = <<>>
    /\ cd_last_op = "__init__"

\* A cooldown test with the comparison turned around.
IsInCooldownReversed(last, now) ==
    IF last = NoTime THEN FALSE ELSE now - last > SignalCooldown

\* OptimizedStrategy.is_in_cooldown
IsInCooldown(last, now) ==
    IF last = NoTime THEN FALSE ELSE now - last < SignalCooldown

\* OptimizedStrategy.should_trade
OptShouldTrade(held) == held = 0

\* OptimizedStrategy.next(): returns while in cooldown; otherwise places
\* the trades when should_trade() holds and then calls set_cooldown().
Opt_next(now, held) ==
    LET placing == ~IsInCooldown(last_signal_time, now) /\ OptShouldTrade(held)
    IN  /\ cd_now' = now
        /\ cd_held' = held
        /\ cd_before' = last_signal_time
        /\ cd_placed' = placing
        /\ trade_times' = IF placing THEN Append(trade_times, now)
                                     ELSE trade_times
        /\ last_signal_time' = IF placing THEN now ELSE last_signal_time
        /\ cd_last_op' = "next"
        /\ UNCHANGED otherThanCooldown

NextCooldown == \E now \in ClockInputs, held \in HeldInputs : Opt_next(now, held)

\* C28: next() places trades exactly when it is not in cooldown and
\* should_trade() holds (no position held), and then records the current
\* time as last_signal_time; any two place_trades() calls are at least
\* signal_cooldown (5 minutes) of algorithm time apart; and a next() that
\* runs while last_signal_time is None is never blocked by the cooldown.
C28_CooldownSpacing ==
    /\ cd_last_op = "next" =>
          (cd_placed <=>
             /\ (cd_before = NoTime \/ cd_now - cd_before >= SignalCooldown)
             /\ cd_held = 0)
    /\ cd_placed => last_signal_time = cd_now
    /\ \A i, j \in DOMAIN trade_times :
          i < j => trade_times[j] - trade_times[i] >= SignalCooldown
    /\ (cd_last_op = "next" /\ cd_before = NoTime /\ cd_held = 0) => cd_placed

\* Two trades were placed, and a later next() was held back by the cooldown.
C28_Witness ==
    /\ Len(trade_times) >= 2
    /\ cd_last_op = "next"
    /\ ~cd_placed
    /\ cd_held = 0
    /\ cd_before # NoTime
    /\ cd_now - cd_before < SignalCooldown

\* ======================================================================
\* C29: the two versions of the single position manager example.
\* ======================================================================

\* Number of exit_all_positions() calls among the recorded statements.
ExitAllCount(cs) ==
    Cardinality({i \in DOMAIN cs : cs[i] # "max_positions_reached"})

\* The version of the position management page (it returns after the
\* time-based exit): exit_all_positions() is called exactly in the three
\* cases and at most once per next().
PM_ExitAtMostOnce ==
    last_op = "next" =>
        /\ ExitAllCount(calls) >= 1 <=>
              \/ (exit_time # NoTime /\ exit_time <= current_datetime)
              \/ profit >= ProfitThreshold
              \/ loss >= LossThreshold
        /\ ExitAllCount(calls) <= 1

\* The version of the core API page (no return after the time-based exit).
PMR_ExitAtMostOnce ==
    r_last_op = "next" =>
        /\ ExitAllCount(r_calls) >= 1 <=>
              \/ (r_exit_time # NoTime /\ r_exit_time <= r_current_datetime)
              \/ r_profit >= RProfitThreshold
              \/ r_loss >= RLossThreshold
        /\ ExitAllCount(r_calls) <= 1

\* C29: in both versions of the example, next() calls exit_all_positions()
\* when the exit time has been reached, or unrealized profit >= the profit
\* threshold, or unrealized loss >= the loss threshold, and in no other
\* case, and calls it at most once per call of next().
C29_ExitAtMostOnce == PM_ExitAtMostOnce /\ PMR_ExitAtMostOnce

\* ======================================================================
\* Swing trading example: signal detection.
\* ======================================================================

InitSignal ==
    /\ prev_reading = NoReading
    /\ cur_reading = NoReading
    /\ buy_signal = FALSE
    /\ sell_signal = FALSE

\* A golden crossover test that looks at the current reading only.
GoldenCrossoverCurrentOnly(prev, cur) == cur[1] > cur[2]

\* Golden Crossover (BUY Signal):
\*   Current: SMA 50 > SMA 200, Previous: SMA 50 <= SMA 200
GoldenCrossover(prev, cur) == cur[1] > cur[2] /\ prev[1] <= prev[2]

\* Death Cross (SELL Signal):
\*   Current: SMA 50 < SMA 200, Previous: SMA 50 >= SMA 200
DeathCross(prev, cur) == cur[1] < cur[2] /\ prev[1] >= prev[2]

\* A new pair of averages arrives; with a previous reading at hand the two
\* signals are evaluated for the pair (previous, current).
NewReading(r) ==
    /\ prev_reading' = cur_reading
    /\ cur_reading' = r
    /\ buy_signal' = (cur_reading # NoReading /\ GoldenCrossover(cur_reading, r))
    /\ sell_signal' = (cur_reading # NoReading /\ DeathCross(cur_reading, r))
    /\ UNCHANGED otherThanSignal

NextSignal == \E r \in ReadingInputs : NewReading(r)

\* Ordering of the two averages of a reading: -1 below, 0 equal, 1 above.
Ordering(r) == IF r[1] < r[2] THEN -1 ELSE IF r[1] = r[2] THEN 0 ELSE 1

\* C22: for every pair of consecutive readings, BUY is generated exactly
\* when SMA 50 is now above SMA 200 and was not above it before, SELL
\* exactly when SMA 50 is now below SMA 200 and was not below it before,
\* never both, and neither when the ordering of the averages is unchanged.
C22_CrossoverSignals ==
    prev_reading # NoReading =>
        /\ buy_signal <=> (Ordering(cur_reading) = 1 /\ Ordering(prev_reading) # 1)
        /\ sell_signal <=> (Ordering(cur_reading) = -1 /\ Ordering(prev_reading) # -1)
        /\ ~(buy_signal /\ sell_signal)
        /\ Ordering(cur_reading) = Ordering(prev_reading) =>
              (~buy_signal /\ ~sell_signal)

\* The golden crossover of the example output was detected as BUY.
C22_Witness ==
    /\ prev_reading = GoldenPrev
    /\ cur_reading = GoldenCur
    /\ buy_signal
    /\ ~sell_signal

\* ======================================================================
\* Site navigation: navbar, footer and sidebar.
\* A document ID and a route are sequences of path segments.
\* ======================================================================

NotFound == <<"404">>
External == <<"external">>
NoLink == <<>>

\* The route base of the docs plugin when routeBasePath is not configured.
RouteBasePathDefault == <<"docs">>

\* presets.classic.docs.routeBasePath: '/'
RouteBasePath == <<>>

\* themeConfig.navbar.items[0].sidebarId
NavbarSidebarId == "docsSidebar"

Doc(id) == [type |-> "doc", id |-> id, link |-> NoLink, items |-> <<>>]
Category(link, items) ==
    [type |-> "category", id |-> NoLink, link |-> link, items |-> items]

\* sidebars.docsSidebar
DocsSidebar == <<
    Doc(<<"intro">>),
    Category(NoLink, << <<"getting-started", "installation">>,
                        <<"getting-started", "quick-start">>,
                        <<"getting-started", "project-structure">> >>),
    Category(NoLink, << <<"core-concepts", "algorithm-overview">>,
                        <<"core-concepts", "session-management">>,
                        <<"core-concepts", "api-integration">> >>),
    Category(NoLink, << <<"indicators", "built-in-indicators">>,
                        <<"indicators", "custom-indicators-guide">>,
                        <<"indicators", "indicator-quick-reference">>,
                        <<"indicators", "tradingview-indicators">> >>),
    Category(NoLink, << <<"trading-and-strategy", "order-management">>,
                        <<"trading-and-strategy", "position-management">>,
                        <<"trading-and-strategy", "signal-management">>,
                        <<"trading-and-strategy", "risk-management">> >>),
    Category(NoLink, << <<"brokers-and-integration", "supported-brokers">>,
                        <<"brokers-and-integration", "fyers-integration">>,
                        <<"brokers-and-integration", "angel-one-integration">>,
                        <<"brokers-and-integration", "shoonya-integration">> >>),
    Category(NoLink, << <<"development", "development-setup">>,
                        <<"development", "contributing-guidelines">>,
                        <<"development", "testing-guide">>,
                        <<"development", "deployment-guide">> >>),
    Category(NoLink, << <<"api-reference", "algorithm-api">>,
                        <<"api-reference", "core-api-reference">>,
                        <<"api-reference", "indicators-api">> >>),
    Category(<<"examples", "README">>, <<>>),
    Category(NoLink, << <<"support", "troubleshooting">>,
                        <<"support", "faq">>,
                        <<"support", "contact">> >>) >>

\* The sidebar configuration: sidebar ID -> sidebar.
Sidebars == [sb \in {"docsSidebar"} |-> DocsSidebar]

\* The document IDs of a sidebar: its doc items, the items of its
\* categories and the documents its categories link to.
SidebarDocIds(sb) ==
    {sb[i].id : i \in {k \in DOMAIN sb : sb[k].type = "doc"}}
    \cup {sb[i].link : i \in {k \in DOMAIN sb : sb[k].type = "category"
                                                  /\ sb[k].link # NoLink}}
    \cup UNION {{sb[i].items[j] : j \in DOMAIN sb[i].items} : i \in DOMAIN sb}

\* themeConfig.footer.links, flattened: 'to' is a route, 'href' leaves the site.
FooterItems == <<
    [label |-> "Getting Started", to |-> <<"getting-started", "installation">>],
    [label |-> "Core Concepts", to |-> <<"core-concepts", "algorithm-overview">>],
    [label |-> "API Reference", to |-> <<"api-reference", "algorithm-api">>],
    [label |-> "Main Website", to |-> External],
    [label |-> "GitHub", to |-> External],
    [label |-> "Support", to |-> <<"support", "contact">>],
    [label |-> "Examples", to |-> <<"examples", "README">>],
    [label |-> "Troubleshooting", to |-> <<"support", "troubleshooting">>] >>

InternalFooterItems == {i \in DOMAIN FooterItems : FooterItems[i].to # External}

\* TRUE iff sequence p is a prefix of sequence q.
IsPrefix(p, q) == Len(p) <= Len(q) /\ SubSeq(q, 1, Len(p)) = p

\* The document ID served at a route: the route without the route base.
ResolveRoute(route) ==
    IF IsPrefix(RouteBasePath, route) /\ Len(route) > Len(RouteBasePath)
    THEN SubSeq(route, Len(RouteBasePath) + 1, Len(route))
    ELSE NotFound

InitSite ==
    /\ current_page = <<"intro">>
    /\ prev_page = <<"intro">>
    /\ via = "load"

\* The navbar item of type docSidebar opens the first document of the
\* sidebar it names.
ClickNavbar ==
    /\ prev_page' = current_page
    /\ current_page' = IF NavbarSidebarId \in DOMAIN Sidebars
                        THEN Sidebars[NavbarSidebarId][1].id
                        ELSE NotFound
    /\ via' = "navbar"
    /\ UNCHANGED otherThanSite

\* A click on an entry of the sidebar.
ClickSidebar(id) ==
    /\ current_page \notin {NotFound, External}
    /\ prev_page' = current_page
    /\ current_page' = id
    /\ via' = "sidebar"
    /\ UNCHANGED otherThanSite

\* A click on a footer link.
ClickFooter(i) ==
    /\ prev_page' = current_page
    /\ current_page' = IF FooterItems[i].to = External
                        THEN External
                        ELSE ResolveRoute(FooterItems[i].to)
    /\ via' = "footer"
    /\ UNCHANGED otherThanSite

NextSite ==
    \/ ClickNavbar
    \/ \E id \in SidebarDocIds(DocsSidebar) : ClickSidebar(id)
    \/ \E i \in DOMAIN FooterItems : ClickFooter(i)

Moneyness(offset) ==
    IF offset = 0 THEN "ATM" ELSE IF offset > 0 THEN "OTM" ELSE "ITM"

Leg(example, name, option_type, offset, label) ==
    [example |-> example, name |-> name, option_type |-> option_type,
     strike_price_input |-> offset, label |-> label]

\* The add_option() calls of the examples with the label their comment
\* gives the leg.
Legs == <<
    Leg("iron-butterfly", "ce_otm", "CE", 5, "OTM"),
    Leg("iron-butterfly", "ce_atm", "CE", 0, "ATM"),
    Leg("iron-butterfly", "pe_atm", "PE", 0, "ATM"),
    Leg("iron-butterfly", "pe_otm", "PE", -5, "OTM"),
    Leg("iron-condor", "ce_far_otm", "CE", 20, "OTM"),
    Leg("iron-condor", "ce_otm", "CE", 10, "OTM"),
    Leg("iron-condor", "pe_otm", "PE", -10, "OTM"),
    Leg("iron-condor", "pe_far_otm", "PE", -20, "OTM"),
    Leg("options-selling", "nifty_ce_otm", "CE", 2, "OTM"),
    Leg("options-selling", "nifty_pe_otm", "PE", -2, "OTM") >>

InitLegs ==
    /\ added = {}
    /\ last_added = 0
    /\ last_moneyness = "ATM"

\* One add_option() call of an example.
AddOption(i) ==
    /\ i \notin added
    /\ added' = added \cup {i}
    /\ last_added' = i
    /\ last_moneyness' = Moneyness(Legs[i].strike_price_input)
    /\ UNCHANGED otherThanLegs

NextLegs == \E i \in DOMAIN Legs : AddOption(i)

\* C27: with strike_price_input read as 0 = ATM, positive = OTM,
\* negative = ITM, every leg the examples label OTM, calls and puts alike,
\* is out of the money.
C27_LabelledOtmIsOtm ==
    (last_added # 0 /\ Legs[last_added].label = "OTM") =>
        last_moneyness = "OTM"

\* ======================================================================
\* Payoff of the iron butterfly and the iron condor at expiry, with the
\* strikes and premiums of the example scenarios.
\* ======================================================================

Max(a, b) == IF a >= b THEN a ELSE b

OptionLeg(option_type, strike, side, premium) ==
    [option_type |-> option_type, strike |-> strike, side |-> side,
     premium |-> premium]

\* Entry of the example scenarios.
Structure(name) ==
    IF name = "iron-butterfly"
    THEN << OptionLeg("PE", 18900, "BUY", 50),
            OptionLeg("PE", 19000, "SELL", 100),
            OptionLeg("CE", 19000, "SELL", 100),
            OptionLeg("CE", 19100, "BUY", 50) >>
    ELSE << OptionLeg("PE", 18800, "BUY", 30),
            OptionLeg("PE", 18900, "SELL", 80),
            OptionLeg("CE", 19100, "SELL", 80),
            OptionLeg("CE", 19200, "BUY", 30) >>

StructureNames == {"iron-butterfly", "iron-condor"}

\* Sum of f[i] over the four legs.
SumLegs(f) == f[1] + f[2] + f[3] + f[4]

\* Net Credit: premium of the sold legs minus premium of the bought legs.
NetCredit(name) ==
    SumLegs([i \in 1..4 |->
        IF Structure(name)[i].side = "SELL"
        THEN Structure(name)[i].premium
        ELSE 0 - Structure(name)[i].premium])

\* Max Loss of the trade log.
MaxLossLogged == 100

\* Exercise value of an option at expiry: a call is worth the price above
\* its strike, a put the price below its strike, otherwise it expires
\* worthless.
IntrinsicValue(leg, price) ==
    IF leg.option_type = "CE"
    THEN Max(price - leg.strike, 0)
    ELSE Max(leg.strike - price, 0)

\* The exercise value the example scenarios give a leg.  The figures follow
\* IntrinsicValue, except in the partial loss scenario of the iron condor,
\* which gives CE 19,100 an exercise value of 50 at a price of 19,050.
ExerciseValue(name, i, price) ==
    IF name = "iron-condor" /\ i = 3 /\ price = 19050
    THEN 50
    ELSE IntrinsicValue(Structure(name)[i], price)

\* Net Loss of a scenario: loss on the sold legs minus gain on the bought
\* legs, per lot.
NetExerciseLoss(name, price) ==
    SumLegs([i \in 1..4 |->
        IF Structure(name)[i].side = "SELL"
        THEN ExerciseValue(name, i, price)
        ELSE 0 - ExerciseValue(name, i, price)])

InitPayoff ==
    /\ pay_structure = "none"
    /\ pay_price = 0
    /\ pay_lots = 0
    /\ pay_net_loss = 0
    /\ pay_pnl = 0

\* Exit at expiry: the net credit is kept, less the net loss on exercise.
Expire(name, price, lots) ==
    /\ pay_structure' = name
    /\ pay_price' = price
    /\ pay_lots' = lots
    /\ pay_net_loss' = lots * NetExerciseLoss(name, price)
    /\ pay_pnl' = lots * (NetCredit(name) - NetExerciseLoss(name, price))
    /\ UNCHANGED otherThanPayoff

NextPayoff ==
    \E name \in StructureNames, price \in PriceInputs, lots \in LotInputs :
        Expire(name, price, lots)

\* The sold strikes of a structure: lowest and highest.
InnerLow(name) == Structure(name)[2].strike
InnerHigh(name) == Structure(name)[3].strike

\* C26: at expiry, for every underlying price, the profit never exceeds the
\* net credit and equals it when the price is at the ATM strike (butterfly)
\* or anywhere between the two inner strikes (condor), and the loss never
\* exceeds the fixed maximum.
C26_PayoffProfile ==
    pay_structure # "none" =>
        /\ pay_pnl <= pay_lots * NetCredit(pay_structure)
        /\ (InnerLow(pay_structure) <= pay_price
              /\ pay_price <= InnerHigh(pay_structure))
             => pay_pnl = pay_lots * NetCredit(pay_structure)
        /\ pay_net_loss <= pay_lots * MaxLossLogged
        /\ 0 - pay_pnl <= pay_lots * MaxLossLogged

\* ======================================================================
\* Entry of the iron butterfly / iron condor: should_trade(), the order
\* items, and the orders and positions the strategy reads back.
\* ======================================================================

\* should_trade() without its first check.
ShouldTradeIgnoringPending(pending, positions, net_loss) ==
    IF positions > 0 THEN FALSE
    ELSE IF net_loss >= LossLimit THEN FALSE
    ELSE TRUE

\* should_trade(): len(pending_orders), len(positions), net_pnl.loss.
ShouldTrade(pending, positions, net_loss) ==
    IF pending > 0 THEN FALSE
    ELSE IF positions > 0 THEN FALSE
    ELSE IF net_loss >= LossLimit THEN FALSE
    ELSE TRUE

OrderItem(leg, position_type, quantity) ==
    [leg |-> leg, position_type |-> position_type, quantity |-> quantity]

\* order_items of the example; a leg is its index in Legs.
OrderItems(name) ==
    IF name = "iron-butterfly"
    THEN << OrderItem(1, "BUY", 1), OrderItem(2, "SELL", 1),
            OrderItem(3, "SELL", 1), OrderItem(4, "BUY", 1) >>
    ELSE << OrderItem(5, "BUY", 1), OrderItem(6, "SELL", 1),
            OrderItem(7, "SELL", 1), OrderItem(8, "BUY", 1) >>

StructureIds == 1..MaxStructures
LegIds == 1..4

\* State of one order item: not placed, pending order, open position,
\* closed position still listed in positions, closed position no longer
\* listed.
OrderStates == {"none", "pending", "open", "closed", "gone"}

LegsIn(states) ==
    {sl \in StructureIds \X LegIds : ent_orders[sl[1]][sl[2]] \in states}

\* len(self.pending_orders)
PendingOrders == Cardinality(LegsIn({"pending"}))

\* len(self.positions)
Positions == Cardinality(LegsIn({"open", "closed"}))

InitEntry ==
    /\ ent_strategy \in StructureNames
    /\ ent_orders = [s \in StructureIds |-> [i \in LegIds |-> "none"]]
    /\ ent_calls = 0
    /\ ent_items = <<>>
    /\ ent_seen = {}
    /\ ent_should = FALSE

\* create_multiple_orders(order_items): every item becomes a pending order.
CreateMultipleOrders(order_items) ==
    /\ ent_calls < MaxStructures
    /\ ent_calls' = ent_calls + 1
    /\ ent_items' = order_items
    /\ ent_orders' = [ent_orders EXCEPT ![ent_calls + 1] =
                         [i \in LegIds |->
                             IF i <= Len(order_items) THEN "pending"
                                                      ELSE "none"]]

\* One next() iteration: the entry conditions, then the order execution.
Entry_next(net_loss) ==
    /\ ent_seen' = {[pending |-> PendingOrders, positions |-> Positions,
                     loss |-> net_loss]}
    /\ ent_should' = ShouldTrade(PendingOrders, Positions, net_loss)
    /\ IF ShouldTrade(PendingOrders, Positions, net_loss)
       THEN CreateMultipleOrders(OrderItems(ent_strategy))
       ELSE UNCHANGED <<ent_orders, ent_calls, ent_items>>
    /\ UNCHANGED <<ent_strategy, otherThanEntry>>

\* The broker fills a pending order: it leaves pending_orders and its
\* position is listed in positions.
OrderFilled(s, i) ==
    /\ ent_orders[s][i] = "pending"
    /\ ent_orders' = [ent_orders EXCEPT ![s][i] = "open"]
    /\ UNCHANGED <<ent_strategy, ent_calls, ent_items, ent_seen, ent_should,
                   otherThanEntry>>

\* An open position is closed; positions lists open and closed positions.
PositionClosed(s, i) ==
    /\ ent_orders[s][i] = "open"
    /\ ent_orders' = [ent_orders EXCEPT ![s][i] = "closed"]
    /\ UNCHANGED <<ent_strategy, ent_calls, ent_items, ent_seen, ent_should,
                   otherThanEntry>>

\* The closed positions of a finished structure leave the list (a new
\* session).
PositionsCleared(s) ==
    /\ \A i \in LegIds : ent_orders[s][i] = "closed"
    /\ ent_orders' = [ent_orders EXCEPT ![s] = [i \in LegIds |-> "gone"]]
    /\ UNCHANGED <<ent_strategy, ent_calls, ent_items, ent_seen, ent_should,
                   otherThanEntry>>

NextEntry ==
    \/ \E net_loss \in EntryLossInputs : Entry_next(net_loss)
    \/ \E s \in StructureIds, i \in LegIds : OrderFilled(s, i)
    \/ \E s \in StructureIds, i \in LegIds : PositionClosed(s, i)
    \/ \E s \in StructureIds : PositionsCleared(s)

\* A structure exists while one of its legs is a pending order or an open
\* position.
StructureExists(s) ==
    \E i \in LegIds : ent_orders[s][i] \in {"pending", "open"}

\* The items of a call: buy outer call, sell inner call, sell inner put,
\* buy outer put.
Abs(n) == IF n >= 0 THEN n ELSE 0 - n

FourLegShape(items) ==
    /\ Len(items) = 4
    /\ <<Legs[items[1].leg].option_type, items[1].position_type>>
          = <<"CE", "BUY">>
    /\ <<Legs[items[2].leg].option_type, items[2].position_type>>
          = <<"CE", "SELL">>
    /\ <<Legs[items[3].leg].option_type, items[3].position_type>>
          = <<"PE", "SELL">>
    /\ <<Legs[items[4].leg].option_type, items[4].position_type>>
          = <<"PE", "BUY">>
    /\ Abs(Legs[items[1].leg].strike_price_input)
          > Abs(Legs[items[2].leg].strike_price_input)
    /\ Abs(Legs[items[4].leg].strike_price_input)
          > Abs(Legs[items[3].leg].strike_price_input)

Init ==
    /\ InitPM
    /\ InitPMR
    /\ InitCooldown
    /\ InitSignal
    /\ InitSite
    /\ InitLegs
    /\ InitPayoff
    /\ InitEntry

Next == NextPM

Spec == Init /\ [][Next]_vars

SpecPMR == Init /\ [][NextPMR]_vars

SpecCooldown == Init /\ [][NextCooldown]_vars

SpecSignal == Init /\ [][NextSignal]_vars

SpecSite == Init /\ [][NextSite]_vars

SpecLegs == Init /\ [][NextLegs]_vars

SpecPayoff == Init /\ [][NextPayoff]_vars

SpecEntry == Init /\ [][NextEntry]_vars

====
